---------------------------- MODULE Spec2Model ----------------------------
(***************************************************************************)
(* Model of src/src/beta.py: the single-window estimator Beta, the         *)
(* stacking combiner BetaForecastCombination and the Bayesian model        *)
(* averaging combiner BetaBMA.                                             *)
(*                                                                         *)
(* Two specifications share the module.                                    *)
(*   Spec     : a combiner object after construction and its fit calls.    *)
(*   SpecBeta : a Beta object after construction and its ols/welch calls.  *)
(*                                                                         *)
(* Numbers.  Beta estimates inside the combiners are kept as symbolic      *)
(* terms "estimator e applied to window W"; the returns of one window in   *)
(* SpecBeta are integers and regression slopes are exact fractions.  The   *)
(* values of the model weights of BetaBMA are fixed-point numbers with     *)
(* Scale units per 1.0, extended with the IEEE values inf and nan.  The    *)
(* results of numpy.linalg.pinv least squares on a non-empty sample are    *)
(* drawn from small sets.                                                  *)
(***************************************************************************)
EXTENDS Integers, Sequences, FiniteSets, TLC

VARIABLES
    cls,         \* class of the combiner object
    window_arg,  \* the window argument given to the constructor
    exog,        \* self.exog   (market returns)
    endog,       \* self.endog  (asset returns)
    window,      \* self.window
    n_obs,       \* self.n_obs
    weights,     \* self.weights: <<>> is None, <<w>> a fitted vector
    loc,         \* locals and outcome of the last fit call
    lstsq,       \* what numpy.linalg.pinv least squares yields on this data
    b_exog,      \* Beta.exog
    b_endog,     \* Beta.endog
    b_ols,       \* outcome of the last Beta.ols() call, <<>> before it
    b_welch      \* outcome and locals of the last Beta.welch() call

vars == <<cls, window_arg, exog, endog, window, n_obs, weights, loc, lstsq,
          b_exog, b_endog, b_ols, b_welch>>

combinerVars == <<cls, window_arg, exog, endog, window, n_obs, weights, loc, lstsq>>
betaVars == <<b_exog, b_endog, b_ols, b_welch>>

-----------------------------------------------------------------------------
(* Bounds of the model *)

MaxObs == 24        \* longest series given to a combiner
MaxTail == 2        \* longest run of zero market returns ending a series
MaxWindow == 2      \* largest explicit window argument
MaxDof == 3         \* largest dof_r
MaxLen == 2         \* longest window given to a Beta object
Scale == 1000       \* fixed-point units per 1.0

(* Program constants *)

DefaultWindow == 21
NumEstimators == 6
WelchDelta == 3

-----------------------------------------------------------------------------
(* Generic helpers *)

Min(a, b) == IF a < b THEN a ELSE b
Max(a, b) == IF a > b THEN a ELSE b
Abs(a) == IF a < 0 THEN -a ELSE a

RECURSIVE SumSeq(_)
SumSeq(s) == IF s = <<>> THEN 0 ELSE Head(s) + SumSeq(Tail(s))

RECURSIVE Flatten(_)
Flatten(ss) == IF ss = <<>> THEN <<>> ELSE Head(ss) \o Flatten(Tail(ss))

(* Python slicing: the stop/start index k of a sequence of length n *)
PyIndex(k, n) == IF k < 0 THEN Max(n + k, 0) ELSE Min(k, n)
SliceTo(s, k) == SubSeq(s, 1, PyIndex(k, Len(s)))
SliceFrom(s, k) == SubSeq(s, PyIndex(k, Len(s)) + 1, Len(s))

(* a function over 1..n evaluated element by element into an array *)
Array(f) == f \o <<>>

(* numpy.hstack of two column vectors: rows <<x, y>>; the shapes must agree *)
CanHstack(a, b) == Len(a) = Len(b)
Hstack(a, b) == Array([t \in 1..Len(a) |-> <<a[t], b[t]>>])

-----------------------------------------------------------------------------
(* Beta: one window *)

Column(W, c) == [t \in 1..Len(W) |-> W[t][c]]

(* X'WX of the design [1, exog] is singular: numpy.linalg.inv raises *)
Singular(xs, ws) ==
    LET sw == SumSeq(ws)
        swx == SumSeq([t \in 1..Len(xs) |-> ws[t] * xs[t]])
        swxx == SumSeq([t \in 1..Len(xs) |-> ws[t] * xs[t] * xs[t]])
    IN sw * swxx - swx * swx = 0

Ones(n) == [t \in 1..n |-> 1]

(* Beta._weighted_ols on X = [1, xs]: the slope as a fraction, or the error *)
WeightedOls(xs, ys, ws) ==
    LET n == Len(xs)
        sw == SumSeq(ws)
        swx == SumSeq([t \in 1..n |-> ws[t] * xs[t]])
        swy == SumSeq([t \in 1..n |-> ws[t] * ys[t]])
        swxx == SumSeq([t \in 1..n |-> ws[t] * xs[t] * xs[t]])
        swxy == SumSeq([t \in 1..n |-> ws[t] * xs[t] * ys[t]])
    IN IF Len(ys) # n
       THEN [kind |-> "raise", exc |-> "ValueError", num |-> 0, den |-> 1]
       ELSE IF Singular(xs, ws)
       THEN [kind |-> "raise", exc |-> "LinAlgError", num |-> 0, den |-> 1]
       ELSE [kind |-> "value", exc |-> "",
             num |-> sw * swxy - swx * swy, den |-> sw * swxx - swx * swx]

BetaOls(xs, ys, adjusted) ==
    LET b == WeightedOls(xs, ys, Ones(Len(xs)))
    IN IF b.kind = "raise" \/ ~adjusted THEN b
       ELSE [b EXCEPT !.num = 67 * b.num + 33 * b.den, !.den = 100 * b.den]

(* winsorising to the symmetric band [-delta * |exog|, delta * |exog|] *)
WinsorizeSymmetric(xs, ys, delta) ==
    [t \in 1..Len(ys) |->
        Min(Max(ys[t], -(delta * Abs(xs[t]))), delta * Abs(xs[t]))]

(* the winsorised asset returns of Beta.welch *)
Winsorize(xs, ys, delta) ==
    [t \in 1..Len(ys) |->
        LET bm_min == (1 - delta) * xs[t]
            bm_max == (1 + delta) * xs[t]
            lower == Min(bm_min, bm_max)
            upper == Max(bm_min, bm_max)
        IN Min(Max(ys[t], lower), upper)]

(* Beta.welch with rho = 0: every weight is exp(0) = 1 *)
BetaWelch(xs, ys, delta) ==
    WeightedOls(xs, Winsorize(xs, ys, delta), Ones(Len(xs)))

SameFraction(a, b) ==
    /\ a.kind = b.kind
    /\ a.exc = b.exc
    /\ a.num * b.den = b.num * a.den

-----------------------------------------------------------------------------
(* BetaForecastCombination *)

EstimatorNames == <<"ols", "adj_ols", "vasicek", "welch", "aged_welch", "robeco">>

(* the value of estimator e on window W, kept as a term *)
Estimate(e, W) == [est |-> e, win |-> W]

(* the column of ones of add_intercept *)
One == [est |-> "one", win |-> <<>>]

AddIntercept(M) == Array([t \in 1..Len(M) |-> <<One>> \o M[t]])

(* every estimator starts with _weighted_ols on [1, exog] of its window *)
WindowSingular(W) == Singular(Column(W, 1), Ones(Len(W)))

(* windows that run up to the whole series: range(n - w + 1) *)
GenerateEstimationWindowsInclusive(data, w) ==
    Array([i \in 1..Max(Len(data) - w + 1, 0) |-> SliceTo(data, w + (i - 1))])

GenerateEstimationWindows(data, w) ==
    Array([i \in 1..Max(Len(data) - w, 0) |-> SliceTo(data, w + (i - 1))])

(* _generate_betas: ok, the estimator matrix, and the number of windows on
   which a regression was attempted *)
GenerateBetas(windows) ==
    LET bad == {t \in 1..Len(windows) : WindowSingular(windows[t])}
        first == CHOOSE t \in bad : \A u \in bad : t <= u
    IN IF bad = {}
       THEN [ok |-> TRUE, attempted |-> Len(windows),
             betas |-> Array([t \in 1..Len(windows) |->
                          Array([e \in 1..NumEstimators |->
                              Estimate(EstimatorNames[e], windows[t])])])]
       ELSE [ok |-> FALSE, attempted |-> first, betas |-> <<>>]

(* the locals of a fit call before its first statement *)
NoCall ==
    [set |-> {}, dof_r |-> 0, cutoff |-> 0,
     train_data |-> <<>>, test_data |-> <<>>, data_matrix |-> <<>>,
     training_windows |-> <<>>, betas |-> <<>>,
     X_train |-> <<>>, y_train |-> <<>>, betas_test |-> <<>>, X_test |-> <<>>,
     beta_s |-> <<>>, combos |-> <<>>, g_inv |-> 0, ssr_r |-> 0,
     models |-> <<>>, w_k |-> <<>>, w_final |-> <<>>,
     regs |-> 0,
     ret |-> [kind |-> "none", exc |-> "", val |-> <<>>]]

Raise(l, e) == [l EXCEPT !.ret = [kind |-> "raise", exc |-> e, val |-> <<>>]]
Return(l, v) == [l EXCEPT !.ret = [kind |-> "value", exc |-> "", val |-> <<v>>]]

(* the regressand paired with the same window: betas[:-1, 0] *)
RealisedBetasSamePeriod(betas) ==
    Array([t \in 1..Len(betas) - 1 |-> SliceTo(betas, -1)[t][1]])

(* betas[1:, 0]: the OLS beta of the next window *)
RealisedBetas(betas) ==
    Array([t \in 1..Len(betas) - 1 |-> SliceFrom(betas, 1)[t][1]])

(* the stored result of numpy.linalg.pinv(X) @ y *)
Pinv(X, y) == [X |-> X, y |-> y]

(* BetaForecastCombination.fit: the new self.weights and the locals *)
FitCombination(self_exog, self_endog, self_window, self_n_obs, self_weights) ==
    LET cutoff == self_n_obs - self_window
        l0 == [NoCall EXCEPT !.cutoff = cutoff, !.set = {"cutoff"}]
        train_data == Hstack(SliceTo(self_exog, cutoff), SliceTo(self_endog, cutoff))
        l1 == [l0 EXCEPT !.train_data = train_data, !.set = @ \cup {"train_data"}]
        test_data == Hstack(SliceFrom(self_exog, cutoff), SliceFrom(self_endog, cutoff))
        l2 == [l1 EXCEPT !.test_data = test_data, !.set = @ \cup {"test_data"}]
        training_windows == GenerateEstimationWindows(train_data, self_window)
        gb == GenerateBetas(training_windows)
        l3 == [l2 EXCEPT !.training_windows = training_windows,
                         !.regs = gb.attempted,
                         !.set = @ \cup {"training_windows"}]
        betas == gb.betas
        l4 == [l3 EXCEPT !.betas = betas, !.set = @ \cup {"betas"}]
        X_train == AddIntercept(SliceTo(betas, -1))
        y_train == RealisedBetas(betas)
        w == Pinv(X_train, y_train)
        gt == GenerateBetas(<<test_data>>)
        l5 == [l4 EXCEPT !.X_train = X_train, !.y_train = y_train,
                         !.regs = @ + 1 + gt.attempted,
                         !.set = @ \cup {"X_train", "weights"}]
        X_test == AddIntercept(gt.betas)
        l6 == [l5 EXCEPT !.betas_test = gt.betas, !.X_test = X_test,
                         !.set = @ \cup {"betas_test", "X_test"}]
    IN IF ~CanHstack(SliceTo(self_exog, cutoff), SliceTo(self_endog, cutoff))
       THEN [weights |-> self_weights, loc |-> Raise(l0, "ValueError")]
       ELSE IF ~CanHstack(SliceFrom(self_exog, cutoff), SliceFrom(self_endog, cutoff))
       THEN [weights |-> self_weights, loc |-> Raise(l1, "ValueError")]
       ELSE IF ~gb.ok
       THEN [weights |-> self_weights, loc |-> Raise(l3, "LinAlgError")]
       ELSE IF Len(train_data) - self_window - 1 < 0
       THEN [weights |-> self_weights, loc |-> Raise(l4, "ValueError")]
       ELSE IF ~gt.ok
       THEN [weights |-> <<w>>, loc |-> Raise(l5, "LinAlgError")]
       ELSE [weights |-> <<w>>, loc |-> Return(l6, [x |-> X_test[1], w |-> w])]

-----------------------------------------------------------------------------
(* Floating-point values of BetaBMA: fixed point, with inf and nan *)

Fin(v) == [k |-> "fin", v |-> v]
Inf == [k |-> "inf", v |-> 0]
NaN == [k |-> "nan", v |-> 0]

RECURSIVE IntPow(_, _)
IntPow(b, e) == IF e = 0 THEN 1 ELSE b * IntPow(b, e - 1)

RECURSIVE SqrtBetween(_, _, _)
SqrtBetween(x, lo, hi) ==
    IF lo >= hi THEN lo
    ELSE LET mid == (lo + hi + 1) \div 2
         IN IF mid * mid <= x THEN SqrtBetween(x, mid, hi)
            ELSE SqrtBetween(x, lo, mid - 1)

(* floor of the square root *)
ISqrt(x) == SqrtBetween(x, 0, Min(x, 46340))

RECURSIVE SumFn(_, _)
SumFn(f, n) == IF n = 0 THEN 0 ELSE f[n] + SumFn(f, n - 1)

(* numpy.sum of a vector of values *)
VSum(ws) ==
    IF \E i \in 1..Len(ws) : ws[i].k = "nan" THEN NaN
    ELSE IF \E i \in 1..Len(ws) : ws[i].k = "inf" THEN Inf
    ELSE Fin(SumFn([i \in 1..Len(ws) |-> ws[i].v], Len(ws)))

(* a / b for non-negative a and b *)
VDiv(a, b) ==
    IF a.k = "nan" \/ b.k = "nan" THEN NaN
    ELSE IF a.k = "inf" THEN (IF b.k = "inf" THEN NaN ELSE Inf)
    ELSE IF b.k = "inf" THEN Fin(0)
    ELSE IF b.v = 0 THEN (IF a.v = 0 THEN NaN ELSE Inf)
    ELSE Fin((a.v * Scale) \div b.v)

(* a * b for two values *)
VMul(a, b) ==
    IF a.k = "nan" \/ b.k = "nan" THEN NaN
    ELSE IF a.k = "inf" THEN (IF b.k = "fin" /\ b.v = 0 THEN NaN ELSE Inf)
    ELSE IF b.k = "inf" THEN (IF a.v = 0 THEN NaN ELSE Inf)
    ELSE Fin((a.v * b.v) \div Scale)

(* a value times a non-negative whole number *)
VTimes(a, n) ==
    IF a.k = "nan" THEN NaN
    ELSE IF a.k = "inf" THEN (IF n = 0 THEN NaN ELSE Inf)
    ELSE Fin(a.v * n)

-----------------------------------------------------------------------------
(* BetaBMA *)

(* itertools.combinations(range(lo, n), r), in its lexicographic order *)
RECURSIVE Combinations(_, _, _)
Combinations(lo, n, r) ==
    IF r = 0 THEN << <<>> >>
    ELSE Flatten([f \in 1..Max(n - r + 1 - lo, 0) |->
            LET first == lo + f - 1
                rest == Combinations(first + 1, n, r - 1)
            IN [j \in 1..Len(rest) |-> <<first>> \o rest[j]]])

(* subsets of every size up to the full set: range(1, n + 1) *)
GenerateBetaCombinationsWithFull(n) ==
    Flatten([i \in 1..n |-> Combinations(0, n, i)])

(* _generate_beta_combinations on a vector of n entries *)
GenerateBetaCombinations(n) ==
    Flatten([i \in 1..Max(n - 1, 0) |-> Combinations(0, n, i)])

(* np.power(a_g, 0.5 * p) with g = 1 / m, a_g = 1 / (1 + m) *)
PowAg(m, p) == Fin(ISqrt((Scale * Scale) \div IntPow(m + 1, p)))

(* np.power(1 + 1 / g * ssr / ssr_r, -0.5 * dof_r) with g = 1 / m *)
PowFit(m, ssr, ssr_r, dof_r) ==
    IF ssr_r = 0
    THEN (IF m * ssr = 0 THEN NaN ELSE Fin(0))
    ELSE Fin(ISqrt((Scale * Scale * IntPow(ssr_r, dof_r))
                     \div IntPow(ssr_r + m * ssr, dof_r)))

(* w_final: every entry of w_k divided by numpy.sum(w_k) *)
NormalizeWeights(w_k) ==
    LET total == VSum(w_k)
    IN Array([i \in 1..Len(w_k) |-> VDiv(w_k[i], total)])

(* the sum of row i of the matrix of products w_final[i] * forecast[j]:
   the forecasts are whole numbers, so the row sums to w_final[i] times
   the sum of the forecasts, and is nan where inf meets a forecast of 0 *)
RowSum(w, forecasts) ==
    IF w.k = "inf" /\ \E j \in 1..Len(forecasts) : forecasts[j] = 0 THEN NaN
    ELSE VTimes(w, SumSeq(forecasts))

(* np.sum(np.array(models)[:,1] * w_final): a vector of shape (n,) times a
   matrix of shape (n, 1) broadcasts to the (n, n) matrix of all products *)
CombineForecasts(models, w_final) ==
    LET forecasts == Array([j \in 1..Len(models) |-> models[j][2]])
    IN VSum(Array([i \in 1..Len(w_final) |-> RowSum(w_final[i], forecasts)]))

(* the sum over the subsets of normalized weight times the subset's forecast *)
WeightedAverage(models, w_final) ==
    VSum([i \in 1..Len(w_final) |-> VTimes(w_final[i], models[i][2])])


(* forecasts and residual sums of squares a pinv regression may yield *)
BetaDom == {0, 1}
SSRDom == {0, 1}

(* the results of the least squares on a non-empty sample: the residual sum
   of squares of the restricted regression, and the forecast and residual
   sum of squares of a subset regression *)
LstSqResults == [ssr_r : SSRDom, beta_k : BetaDom, ssr_u : SSRDom]

(* _generate_beta_combinations by the length of its argument *)
BetaCombinationsOf == [n \in 0..NumEstimators |-> GenerateBetaCombinations(n)]

(* BetaBMA.fit: the locals and the outcome; ls holds the results of the
   least squares on non-empty samples *)
BMAFit(self_exog, self_endog, self_window, dof_r, ls) ==
    LET l0 == [NoCall EXCEPT !.dof_r = dof_r]
        data_matrix == Hstack(self_exog, self_endog)
        training_windows == GenerateEstimationWindows(data_matrix, self_window)
        gb == GenerateBetas(training_windows)
        l1 == [l0 EXCEPT !.data_matrix = data_matrix,
                         !.training_windows = training_windows,
                         !.regs = gb.attempted,
                         !.set = {"data_matrix", "training_windows"}]
        beta_w == gb.betas
        gs == GenerateBetas(<<data_matrix>>)
        l2 == [l1 EXCEPT !.betas = beta_w, !.regs = @ + gs.attempted,
                         !.set = @ \cup {"beta_w"}]
        beta_s == AddIntercept(gs.betas)
        l3 == [l2 EXCEPT !.beta_s = beta_s, !.set = @ \cup {"beta_s"}]
        combos == BetaCombinationsOf[Len(beta_w[1])]
        g_inv == Min(Len(training_windows), Len(combos))
        rows_r == Len(SliceTo(beta_w, -dof_r))
        ssr_r == IF rows_r = 0 THEN 0 ELSE ls.ssr_r
        rows_u == Len(SliceTo(beta_w, -1))
        models == Array([i \in 1..Len(combos) |->
                     IF rows_u = 0 THEN <<Len(combos[i]), 0, 0>>
                     ELSE <<Len(combos[i]), ls.beta_k, ls.ssr_u>>])
        pow_ag == Array([p \in 1..NumEstimators |-> PowAg(g_inv, p)])
        pow_fit == [s \in SSRDom |-> PowFit(g_inv, s, ssr_r, dof_r)]
        w_k == Array([i \in 1..Len(models) |->
                  VMul(pow_ag[models[i][1]], pow_fit[models[i][3]])])
        w_final == NormalizeWeights(w_k)
        l4 == [l3 EXCEPT !.combos = combos, !.g_inv = g_inv, !.ssr_r = ssr_r,
                         !.models = models, !.w_k = w_k, !.w_final = w_final,
                         !.regs = @ + 1 + Len(combos),
                         !.set = @ \cup {"combos", "g", "ssr_r", "models",
                                         "w_k", "w_final"}]
    IN IF ~CanHstack(self_exog, self_endog) THEN Raise(l0, "ValueError")
       ELSE IF ~gb.ok THEN Raise(l1, "LinAlgError")
       ELSE IF ~gs.ok THEN Raise(l2, "LinAlgError")
       ELSE IF Len(beta_w) = 0 THEN Raise(l3, "IndexError")
       ELSE Return(l4, CombineForecasts(models, w_final))

-----------------------------------------------------------------------------
(* Specification of a combiner object *)

Classes == {"BetaForecastCombination", "BetaBMA"}

(* window arguments: explicit ones, and the default when it is left out *)
WindowArgs == (-1..MaxWindow) \cup {DefaultWindow}

(* market returns 2, 1, 2, 1, ... ending in k zero returns *)
ExogSeries(n, k) == [t \in 1..n |-> IF t > n - k THEN 0 ELSE 1 + (t % 2)]

(* asset returns 0, 1, -1, 0, 1, -1, ... *)
EndogSeries(n) == [t \in 1..n |-> (((t % 3) + 1) % 3) - 1]

(* only BetaBMA.fit reads the least-squares results *)
NoLstSq == [ssr_r |-> 0, beta_k |-> 0, ssr_u |-> 0]

Tails(n) == {0, Min(MaxTail, n), n}

(* BetaForecastCombination.__init__ stores the window; BetaBMA.__init__
   calls super().__init__(exog, endog) and so leaves the default *)
ConstructedWindow(c, w) == IF c = "BetaBMA" THEN DefaultWindow ELSE w

Init ==
    /\ cls \in Classes
    /\ window_arg \in WindowArgs
    /\ \E n \in 0..MaxObs : \E k \in Tails(n) : exog = ExogSeries(n, k)
    /\ \E n \in 0..MaxObs : 
          /\ n - Len(exog) \in {-1, 0, 1}
          /\ endog = EndogSeries(n)
    /\ window = ConstructedWindow(cls, window_arg)
    /\ n_obs = Len(endog)
    /\ weights = <<>>
    /\ loc = NoCall
    /\ lstsq \in (IF cls = "BetaBMA" THEN LstSqResults ELSE {NoLstSq})
    /\ b_exog = <<>>
    /\ b_endog = <<>>
    /\ b_ols = <<>>
    /\ b_welch = <<>>

(* a call of BetaForecastCombination.fit *)
Fit ==
    /\ cls = "BetaForecastCombination"
    /\ LET r == FitCombination(exog, endog, window, n_obs, weights)
       IN /\ weights' = r.weights
          /\ loc' = r.loc
    /\ UNCHANGED <<cls, window_arg, exog, endog, window, n_obs, lstsq>>
    /\ UNCHANGED betaVars

(* a call of BetaBMA.fit(dof_r) *)
FitBMA(dof_r) ==
    /\ cls = "BetaBMA"
    /\ loc' = BMAFit(exog, endog, window, dof_r, lstsq)
    /\ UNCHANGED <<cls, window_arg, exog, endog, window, n_obs, weights, lstsq>>
    /\ UNCHANGED betaVars

Next ==
    \/ Fit
    \/ \E dof_r \in 1..MaxDof : FitBMA(dof_r)

Spec == Init /\ [][Next]_vars

-----------------------------------------------------------------------------
(* Specification of a Beta object *)

XDom == {-1, 0, 1}
YDom == -4..4

SeqsOf(S, n) == [1..n -> S]

InitBeta ==
    /\ \E n \in 0..MaxLen :
          /\ b_exog \in SeqsOf(XDom, n)
          /\ b_endog \in SeqsOf(YDom, n)
    /\ b_ols = <<>>
    /\ b_welch = <<>>
    /\ cls = "Beta"
    /\ window_arg = 0
    /\ exog = <<>>
    /\ endog = <<>>
    /\ window = 0
    /\ n_obs = 0
    /\ weights = <<>>
    /\ loc = NoCall
    /\ lstsq = NoLstSq

(* a call of Beta.ols(adjusted) *)
Ols(adjusted) ==
    /\ cls = "Beta"
    /\ b_ols' = <<[adjusted |-> adjusted, ret |-> BetaOls(b_exog, b_endog, adjusted)]>>
    /\ UNCHANGED <<b_exog, b_endog, b_welch>>
    /\ UNCHANGED combinerVars

(* a call of Beta.welch() with the default delta and rho *)
Welch ==
    /\ cls = "Beta"
    /\ b_welch' = <<[delta |-> WelchDelta,
                     endog_wins |-> Winsorize(b_exog, b_endog, WelchDelta),
                     ret |-> BetaWelch(b_exog, b_endog, WelchDelta)]>>
    /\ UNCHANGED <<b_exog, b_endog, b_ols>>
    /\ UNCHANGED combinerVars

NextBeta ==
    \/ \E adjusted \in BOOLEAN : Ols(adjusted)
    \/ Welch

SpecBeta == InitBeta /\ [][NextBeta]_vars

-----------------------------------------------------------------------------
(* Properties *)

Called == loc.ret.kind # "none"

(* the paired series, when the two series have the same length *)
Data == Hstack(exog, endog)

(* the series the last fit call gave to _generate_estimation_windows *)
WindowedSeries ==
    IF cls = "BetaForecastCombination" THEN loc.train_data ELSE loc.data_matrix

IsPrefix(a, b) == Len(a) <= Len(b) /\ SubSeq(b, 1, Len(a)) = a

EstimatorVector(W) == [e \in 1..NumEstimators |-> Estimate(EstimatorNames[e], W)]

RECURSIVE Binomial(_, _)
Binomial(n, k) ==
    IF k = 0 THEN 1
    ELSE IF n = 0 THEN 0
    ELSE Binomial(n - 1, k - 1) + Binomial(n - 1, k)

Elements(c) == {c[i] : i \in 1..Len(c)}

(* c comes before d in lexicographic order; both have the same length *)
LexLess(c, d) ==
    \E i \in 1..Len(c) :
        /\ c[i] < d[i]
        /\ \A j \in 1..(i - 1) : c[j] = d[j]

(* C1: the value BetaBMA.fit returns is the sum over the subsets of the
   subset's own normalized weight times the subset's forecast *)
C1_PosteriorWeightedAverage ==
    (cls = "BetaBMA" /\ loc.ret.kind = "value")
        => loc.ret.val[1] = WeightedAverage(loc.models, loc.w_final)

(* C2: a BetaBMA constructed with window = w, 0 < w < n_obs, builds its
   estimator matrix from n_obs - w expanding windows, the shortest of
   length w, and its g-prior uses num_training_windows = n_obs - w *)
C2_WindowSizeHonoured ==
    (/\ cls = "BetaBMA"
     /\ "training_windows" \in loc.set
     /\ 0 < window_arg
     /\ window_arg < n_obs)
        => /\ Len(loc.training_windows) = n_obs - window_arg
           /\ Len(loc.training_windows[1]) = window_arg
           /\ "g" \in loc.set
                 => loc.g_inv = Min(n_obs - window_arg, Len(loc.combos))

(* C3: the normalized model weights of BetaBMA.fit, one per subset, are
   each a finite number and sum to 1, up to one rounding unit per weight *)
C3_WeightsSumToOne ==
    (cls = "BetaBMA" /\ "w_final" \in loc.set)
        => /\ \A i \in 1..Len(loc.w_final) : loc.w_final[i].k = "fin"
           /\ VSum(loc.w_final).k = "fin"
           /\ Abs(VSum(loc.w_final).v - Scale) <= Len(loc.w_final)

(* C4: a fit call that raises leaves self.weights as it was before the call *)
C4_FailedFitKeepsWeights ==
    [][loc'.ret.kind = "raise" => weights' = weights]_vars

(* C5: over a series of length n and window size w, 0 <= w <= n, the
   generator yields n - w windows; window i is the first w + i observations,
   a strict prefix of window i + 1, and no window holds the last observation *)
C5_ExpandingWindows ==
    (/\ "training_windows" \in loc.set
     /\ 0 <= window
     /\ window <= Len(WindowedSeries))
        => LET tw == loc.training_windows
               n == Len(WindowedSeries)
           IN /\ Len(tw) = n - window
              /\ \A i \in 1..Len(tw) :
                    /\ Len(tw[i]) = window + (i - 1)
                    /\ tw[i] = SubSeq(WindowedSeries, 1, window + (i - 1))
                    /\ Len(tw[i]) < n
                    /\ i < Len(tw) =>
                          /\ IsPrefix(tw[i], tw[i + 1])
                          /\ Len(tw[i]) < Len(tw[i + 1])

C5_Witness ==
    /\ "training_windows" \in loc.set
    /\ window >= 2
    /\ Len(loc.training_windows) >= 3
    /\ Len(loc.training_windows) = Len(WindowedSeries) - window

(* C6: the subsets enumerated for the 6 estimators are the 62 subsets of
   {0..5} of size 1 to 5, each once, C(6,k) of size k, never the empty or
   the full set, ordered by size and lexicographically within a size *)
C6_SubsetEnumeration ==
    "combos" \in loc.set
        => LET cs == loc.combos
               idx == 0..(NumEstimators - 1)
           IN /\ Len(cs) = 62
              /\ \A i \in 1..Len(cs) :
                    /\ Len(cs[i]) \in 1..(NumEstimators - 1)
                    /\ Elements(cs[i]) \subseteq idx
                    /\ \A a \in 1..(Len(cs[i]) - 1) : cs[i][a] < cs[i][a + 1]
              /\ \A S \in SUBSET idx :
                    Cardinality({i \in 1..Len(cs) : Elements(cs[i]) = S})
                        = IF S = {} \/ S = idx THEN 0 ELSE 1
              /\ \A k \in 1..(NumEstimators - 1) :
                    Cardinality({i \in 1..Len(cs) : Len(cs[i]) = k})
                        = Binomial(NumEstimators, k)
              /\ \A i \in 1..(Len(cs) - 1) :
                    \/ Len(cs[i]) < Len(cs[i + 1])
                    \/ /\ Len(cs[i]) = Len(cs[i + 1])
                       /\ LexLess(cs[i], cs[i + 1])

C6_Witness ==
    /\ cls = "BetaBMA"
    /\ "combos" \in loc.set
    /\ loc.ret.kind = "value"

BothCalled ==
    /\ b_welch # <<>>
    /\ b_ols # <<>>
    /\ ~b_ols[1].adjusted

WelchIsOls ==
    /\ b_welch[1].endog_wins = b_endog
    /\ SameFraction(b_welch[1].ret, b_ols[1].ret)

(* C7 as stated: with delta = 3 and rho = 0, if |endog_t| <= 3 * |exog_t|
   at every t then winsorising changes no observation and welch() is ols() *)
C7_WelchBoundaryOriginal ==
    (/\ BothCalled
     /\ \A t \in 1..Len(b_exog) : Abs(b_endog[t]) <= WelchDelta * Abs(b_exog[t]))
        => WelchIsOls

(* C7 amended: with delta = 3 and rho = 0, if |endog_t - exog_t| <=
   3 * |exog_t| at every t, that is endog_t lies between -2 * exog_t and
   4 * exog_t, then winsorising changes no observation and welch() is ols() *)
C7_WelchBoundary ==
    (/\ BothCalled
     /\ \A t \in 1..Len(b_exog) :
           Abs(b_endog[t] - b_exog[t]) <= WelchDelta * Abs(b_exog[t]))
        => WelchIsOls

C7_Witness ==
    /\ BothCalled
    /\ \A t \in 1..Len(b_exog) :
          Abs(b_endog[t] - b_exog[t]) <= WelchDelta * Abs(b_exog[t])
    /\ \E t \in 1..Len(b_exog) : Abs(b_endog[t]) > WelchDelta * Abs(b_exog[t])
    /\ b_welch[1].ret.kind = "value"
    /\ b_welch[1].ret.num # 0

ZeroWindowsCall ==
    /\ "training_windows" \in loc.set
    /\ Len(WindowedSeries) <= window

(* C8: a fit call whose windowed series has no more observations than the
   window raises before any regression is attempted, returns no forecast
   and leaves self.weights unchanged *)
C8_InsufficientDataSurfaced ==
    [][ZeroWindowsCall' =>
          /\ loc'.ret.kind = "raise"
          /\ loc'.regs = 0
          /\ weights' = weights]_vars

NumTrainingWindows == Max(Len(endog) - window, 0)

InvalidConfiguration ==
    \/ window_arg <= 0
    \/ Len(exog) # Len(endog)
    \/ cls = "BetaBMA" /\ loc.dof_r >= NumTrainingWindows

(* C9: a fit call under a window <= 0, series of different lengths, or
   dof_r >= the number of training windows raises before any window is
   generated or any regression is run, and returns no value *)
C9_InvalidConfigurationRejected ==
    (Called /\ InvalidConfiguration)
        => /\ loc.ret.kind = "raise"
           /\ "training_windows" \notin loc.set
           /\ loc.regs = 0

C10_Applies ==
    /\ cls = "BetaForecastCombination"
    /\ Called
    /\ Len(exog) = Len(endog)
    /\ window >= 1
    /\ n_obs > 2 * window + 1

(* C10: for n_obs > 2 * window + 1, BetaForecastCombination.fit splits the
   series into the first n_obs - window and the last window observations;
   every training window is a prefix of the training part; the regression
   pairs the six estimates of training window t with the OLS beta of
   training window t + 1, n_obs - 2 * window - 1 pairs in all; and the
   forecast features are the estimates of one window, the whole test part *)
C10_TrainTestSeparation ==
    C10_Applies
        => LET tw == loc.training_windows
               cut == n_obs - window
           IN /\ loc.train_data = SubSeq(Data, 1, cut)
              /\ loc.test_data = SubSeq(Data, cut + 1, n_obs)
              /\ loc.train_data \o loc.test_data = Data
              /\ Len(loc.test_data) = window
              /\ Len(tw) = n_obs - 2 * window
              /\ \A i \in 1..Len(tw) :
                    /\ IsPrefix(tw[i], loc.train_data)
                    /\ Len(tw[i]) <= cut
              /\ "weights" \in loc.set =>
                    /\ Len(loc.X_train) = n_obs - 2 * window - 1
                    /\ Len(loc.y_train) = n_obs - 2 * window - 1
                    /\ \A t \in 1..Len(loc.X_train) :
                          /\ loc.X_train[t] = <<One>> \o EstimatorVector(tw[t])
                          /\ loc.y_train[t] = Estimate("ols", tw[t + 1])
                    /\ weights = <<Pinv(loc.X_train, loc.y_train)>>
              /\ "betas_test" \in loc.set =>
                    /\ Len(loc.betas_test) = 1
                    /\ loc.betas_test[1] = EstimatorVector(loc.test_data)
                    /\ loc.X_test = << <<One>> \o EstimatorVector(loc.test_data) >>

C10_Witness ==
    /\ C10_Applies
    /\ loc.ret.kind = "value"
    /\ Len(loc.X_train) >= 2
    /\ Len(loc.test_data) >= 2

=============================================================================
